---- MODULE Spec2Model ----
(***************************************************************************)
(* mergekit-evolve (src/mergekit/scripts/evolve.py): the search driver     *)
(* `main`, its two closures `parallel_evaluate` and `progress_callback`,   *)
(* and the resharding cache `_reshard_model`.                              *)
(*                                                                         *)
(* `main` is modelled as a program counter `pc` walking through the        *)
(* function; cma.fmin2's ask / evaluate / tell / callback loop is          *)
(* unfolded between pc = "loop" and pc = "cb_artifact".  An asynchronous   *)
(* KeyboardInterrupt may be delivered between any two steps.               *)
(***************************************************************************)
EXTENDS Integers, Sequences, FiniteSets, TLC

\* ------------------------------------------------------------- bounds
\* number of input models named by the genome configuration
NumModels == 2
\* genotypes the optimizer can propose: 1..NumGenotypes
NumGenotypes == 2
\* population size of one CMA-ES generation
PopSize == 2
\* --max-fevals
MaxFevals == 4
\* --num-gpus: size of the actor pool
NumGpus == 2
\* number of jobs the buffered strategy keeps in flight
BufferDepth == 2

\* np.inf, as an integer larger than every score
Inf == 9

\* ------------------------------------------------------------- values
ModelIds == 1..NumModels
NoModel == 0
Genotypes == 1..NumGenotypes
\* the value of xbest that cma reports before any finite cost was seen
NoGenotype == -1
Strategies == {"serial", "pool", "buffered"}
NoExc == [type |-> "none", line |-> 0]
NoReport == [cost |-> Inf, config |-> <<>>, printed |-> 0]

VARIABLES
  pc,                \* position in main
  exc,               \* the exception that escaped main, NoExc if none
  config_valid,      \* whether the run configuration passes model_validate
  use_wandb,         \* --wandb / --no-wandb
  wandb,             \* TRUE iff `import wandb` succeeded
  strategy,          \* --strategy
  base_model,        \* config.genome.base_model (NoModel: None)
  as_script,         \* TRUE iff the file runs as __main__ (lines 256-257)
  source,            \* model -> what converting its checkpoint runs into
  run,               \* "unbound" | "None" | "Run"
  fs,                \* storage_path/input_models: path -> "absent"|"partial"|"model"|"full"
  resharded_models,  \* list of ModelReference paths
  resharded_base,    \* ModelReference path or <<>> for None
  reshard_log,       \* one record per returned _reshard_model call
  conversions,       \* unique id -> number of conversions started
  es,                \* cma.CMAEvolutionStrategy: countevals, countiter, best
  X,                 \* the batch handed to parallel_evaluate
  submitted,         \* strategy: number of genotypes dispatched so far
  completed,         \* strategy: <<index, fitness>> in completion order
  computed,          \* index -> the fitness its worker produced, this batch
  res,               \* parallel_evaluate's res
  costs,             \* list returned by parallel_evaluate
  xbest,             \* main's xbest
  xbest_cost,        \* main's xbest_cost
  best_config_yaml,  \* storage_path/best_config.yaml: <<>> missing, <<"">> empty, or yaml
  sink_calls,        \* number of operations invoked on `run`
  stdout,            \* the final report
  best_seen,         \* the <<genotype, cost>> of least cost handed to es.tell so far
  asked,             \* number of batches asked
  gens_done,         \* number of generations whose callback has returned
  best_done,         \* best_seen when the last completed generation ended
  checkpoints,       \* number of completed writes of best_config.yaml
  checkpointed,      \* <<genotype, cost>> of the last completed write, <<>> if none
  interrupted        \* pc at which KeyboardInterrupt was delivered, "" if none

vars == <<pc, exc, config_valid, use_wandb, wandb, strategy, base_model, as_script,
          source, run,
          fs, resharded_models, resharded_base, reshard_log, conversions,
          es, X, submitted, completed, computed, res, costs, xbest, xbest_cost,
          best_config_yaml, sink_calls, stdout, best_seen, asked, gens_done,
          best_done, checkpoints, checkpointed, interrupted>>

cfgVars == <<config_valid, use_wandb, wandb, strategy, base_model, as_script, source>>
reshardVars == <<fs, resharded_models, resharded_base, reshard_log, conversions>>
batchVars == <<X, submitted, completed, computed, res, costs>>
ghostVars == <<best_seen, asked, gens_done, best_done, checkpoints, checkpointed>>
loopVars == <<es, X, submitted, completed, computed, res, costs, xbest, xbest_cost,
              best_config_yaml, sink_calls, best_seen, asked, gens_done,
              best_done, checkpoints, checkpointed>>

\* ------------------------------------------------------------- genome
\* config.genome.models
models == [i \in 1..NumModels |-> i]

\* genome.initial_genotype(random=config.random_init)
x0 == 0

\* genome.genotype_merge_config(g).to_yaml()
genotype_merge_config(g) == [weights |-> g]
to_yaml(c) == <<"merge_config", c.weights>>

\* the evaluation harness: the score of the model merged from genotype g
Harness(g) == 1 + (g % 2)

\* the fitness a strategy reports for a genotype whose merge or scoring failed
WorstFitness == 0 - Inf

Min(S) == CHOOSE m \in S : \A n \in S : m <= n

\* the pairs <<genotype, cost>> of S whose cost is the least of S
LeastCost(S) == {p \in S : \A q \in S : p[2] <= q[2]}

\* ------------------------------------------------------------- _reshard_model
\* os.path.join(storage_path, "input_models", merged.model._unique_id())
out_path(model) == <<"input_models", model>>

Paths == {out_path(m) : m \in ModelIds}

\* variant of path_exists: the cache check of line 273 never finds the directory
path_never_exists(files, p) == FALSE

\* os.path.exists(out_path)
path_exists(files, p) == files[p] # "absent"

\* What the conversion of a model's checkpoint runs into.  A run converts a
\* model at most once, so the outcome is fixed per model:
\*   "ok"            everything loads and saves
\*   "no_tokenizer"  AutoTokenizer.from_pretrained or save_pretrained raises
\*   "load_fails"    AutoModelForCausalLM.from_pretrained raises
\*   "save_fails"    model_hf.save_pretrained raises after creating out_path
SourceKinds == {"ok", "no_tokenizer", "load_fails", "save_fails"}

\* variant of tokenizer_copy: no except clause around lines 287-293
tokenizer_copy_uncaught(kind) ==
  IF kind = "no_tokenizer"
  THEN [raised |-> "TokenizerError", warned |-> FALSE, dir |-> "model"]
  ELSE [raised |-> "", warned |-> FALSE, dir |-> "full"]

\* lines 286-295: the tokenizer is loaded and saved next to the weights; any
\* Exception is caught and logged as a warning.  dir is what out_path holds
\* afterwards.
tokenizer_copy(kind) ==
  IF kind = "no_tokenizer"
  THEN [raised |-> "", warned |-> TRUE, dir |-> "model"]
  ELSE [raised |-> "", warned |-> FALSE, dir |-> "full"]

\* The result of one call _reshard_model(model, ...) on file system `files`
\* for a checkpoint of kind `kind`: raised is the exception type ("" when the
\* call returns), ret the returned reference, work the conversion operations
\* the call performed, warned whether logging.warning was called.
reshard_model(model, kind, files) ==
  LET p == out_path(model) IN
  IF path_exists(files, p)
  THEN [raised |-> "", ret |-> p, files |-> files, work |-> {}, warned |-> FALSE]
  ELSE CASE kind = "load_fails" ->
              [raised |-> "LoadError", ret |-> <<>>, files |-> files,
               work |-> {"load"}, warned |-> FALSE]
         [] kind = "save_fails" ->
              [raised |-> "SaveError", ret |-> <<>>,
               files |-> [files EXCEPT ![p] = "partial"],
               work |-> {"load", "save"}, warned |-> FALSE]
         [] OTHER ->
              LET t == tokenizer_copy(kind) IN
              [raised |-> t.raised,
               ret |-> IF t.raised = "" THEN p ELSE <<>>,
               files |-> [files EXCEPT ![p] = t.dir],
               work |-> {"load", "save", "tokenizer"}, warned |-> t.warned]

\* ------------------------------------------------------------- initial state
\* the state of main's variables, the optimizer and the outputs at entry
InitProgram ==
  /\ pc = "validate"
  /\ exc = NoExc
  /\ run = "unbound"
  /\ resharded_models = <<>>
  /\ resharded_base = <<>>
  /\ reshard_log = <<>>
  /\ conversions = [m \in ModelIds |-> 0]
  /\ es = [countevals |-> 0, countiter |-> 0, xbest |-> NoGenotype, fbest |-> Inf]
  /\ X = <<>>
  /\ submitted = 0
  /\ completed = <<>>
  /\ computed = <<>>
  /\ res = <<>>
  /\ costs = <<>>
  /\ xbest = NoGenotype
  /\ xbest_cost = Inf
  /\ best_config_yaml = <<>>
  /\ sink_calls = 0
  /\ stdout = NoReport
  /\ best_seen = {}
  /\ asked = 0
  /\ gens_done = 0
  /\ best_done = {}
  /\ checkpoints = 0
  /\ checkpointed = <<>>
  /\ interrupted = ""

\* The search on a fresh storage path: every command line and configuration,
\* source checkpoints that convert or cannot be loaded.
Init ==
  /\ InitProgram
  /\ config_valid \in BOOLEAN
  /\ use_wandb \in BOOLEAN
  /\ wandb \in BOOLEAN
  /\ strategy \in Strategies
  /\ base_model \in {NoModel} \cup ModelIds
  /\ as_script \in BOOLEAN
  /\ source \in [ModelIds -> {"ok", "load_fails"}]
  /\ fs = [p \in Paths |-> "absent"]

\* The resharding phase on every storage path (entries left by earlier runs,
\* complete or not) and every kind of source checkpoint.
InitReshard ==
  /\ InitProgram
  /\ config_valid = TRUE
  /\ use_wandb = FALSE
  /\ wandb = FALSE
  /\ strategy = "serial"
  /\ base_model \in {NoModel} \cup ModelIds
  /\ as_script = FALSE
  /\ source \in [ModelIds -> SourceKinds]
  /\ fs \in [Paths -> {"absent", "partial", "model", "full"}]

\* an exception leaves main
Raise(type, line) ==
  /\ pc' = "aborted"
  /\ exc' = [type |-> type, line |-> line]

\* ------------------------------------------------------------- main, lines 97-182
\* variant of Validate: the configuration is used without being validated
ValidateSkipped ==
  /\ pc = "validate"
  /\ pc' = "wandb_init"
  /\ UNCHANGED <<exc, cfgVars, run, reshardVars, loopVars, stdout, interrupted>>

\* lines 97-99: EvolMergeConfiguration.model_validate
Validate ==
  /\ pc = "validate"
  /\ IF config_valid
     THEN pc' = "wandb_init" /\ exc' = exc
     ELSE Raise("ValidationError", 97)
  /\ UNCHANGED <<cfgVars, run, reshardVars, loopVars, stdout, interrupted>>

\* lines 101-110
WandbInit ==
  /\ pc = "wandb_init"
  /\ IF use_wandb
     THEN IF ~wandb
          THEN Raise("RuntimeError", 103) /\ run' = run
          ELSE pc' = "reshard" /\ exc' = exc /\ run' = "Run"
     ELSE pc' = "reshard" /\ exc' = exc /\ run' = "None"
  /\ UNCHANGED <<cfgVars, reshardVars, loopVars, stdout, interrupted>>

\* variant of AllModelsResharded: the loop of line 130 stops after one model
FirstModelResharded == Len(resharded_models) >= 1

\* line 130: the loop over config.genome.models is exhausted
AllModelsResharded == Len(resharded_models) = Len(models)

\* lines 130-135: one iteration of the loop over config.genome.models.
\* Run as a script, line 257 calls main before line 260 has bound the name
\* _reshard_model.
ReshardModels ==
  /\ pc = "reshard"
  /\ ~AllModelsResharded
  /\ IF as_script
     THEN /\ Raise("NameError", 132)
          /\ UNCHANGED <<fs, conversions, resharded_models, reshard_log>>
     ELSE LET model == models[Len(resharded_models) + 1] IN
          LET r == reshard_model(model, source[model], fs) IN
            /\ fs' = r.files
            /\ conversions' = [conversions EXCEPT
                  ![model] = @ + (IF "load" \in r.work THEN 1 ELSE 0)]
            /\ IF r.raised = ""
               THEN /\ resharded_models' = Append(resharded_models, r.ret)
                    /\ reshard_log' = Append(reshard_log,
                          [model |-> model, ret |-> r.ret, work |-> r.work,
                           warned |-> r.warned])
                    /\ pc' = "reshard"
                    /\ exc' = exc
               ELSE /\ Raise(r.raised, 132)
                    /\ UNCHANGED <<resharded_models, reshard_log>>
  /\ UNCHANGED <<cfgVars, run, resharded_base, loopVars, stdout, interrupted>>

\* lines 136-142
ReshardBase ==
  /\ pc = "reshard"
  /\ AllModelsResharded
  /\ IF base_model # NoModel
     THEN LET r == reshard_model(base_model, source[base_model], fs) IN
            /\ fs' = r.files
            /\ conversions' = [conversions EXCEPT
                  ![base_model] = @ + (IF "load" \in r.work THEN 1 ELSE 0)]
            /\ IF r.raised = ""
               THEN /\ resharded_base' = r.ret
                    /\ reshard_log' = Append(reshard_log,
                          [model |-> base_model, ret |-> r.ret, work |-> r.work,
                           warned |-> r.warned])
                    /\ pc' = "construct"
                    /\ exc' = exc
               ELSE /\ Raise(r.raised, 137)
                    /\ UNCHANGED <<resharded_base, reshard_log>>
     ELSE /\ pc' = "construct"
          /\ exc' = exc
          /\ UNCHANGED <<fs, conversions, resharded_base, reshard_log>>
  /\ UNCHANGED <<cfgVars, run, resharded_models, loopVars, stdout, interrupted>>

\* lines 144-182: genome, strategy, x0, xbest, xbest_cost
Construct ==
  /\ pc = "construct"
  /\ xbest' = x0
  /\ xbest_cost' = Inf
  /\ pc' = "loop"
  /\ UNCHANGED <<exc, cfgVars, run, reshardVars, es, batchVars,
                 best_config_yaml, sink_calls, stdout, ghostVars, interrupted>>

\* ------------------------------------------------------------- evaluation strategy
\* how many genotypes the strategy keeps in flight at once
InFlightLimit ==
  CASE strategy = "serial" -> 1
    [] strategy = "pool" -> NumGpus
    [] strategy = "buffered" -> BufferDepth

MinOf(a, b) == IF a <= b THEN a ELSE b

\* indices of the batch that were dispatched and have not completed yet
InFlight == {i \in 1..submitted : \A k \in 1..Len(completed) : completed[k][1] # i}

\* variant of Reassemble: the results are returned in the order they completed
ReassembleInCompletionOrder(done) == [k \in 1..Len(done) |-> done[k][2]]

\* the fitness sequence evaluate_genotypes returns when the completions were
\* harvested in the order `done`: the strategy puts each result back at the
\* index of its genotype
Reassemble(done) ==
  [i \in 1..Len(done) |->
     LET k == CHOOSE k \in 1..Len(done) : done[k][1] = i IN done[k][2]]

\* strat.evaluate_genotypes(x) has every result
AllCompleted == Len(completed) = Len(X)

\* variant of Negate: the failed evaluations are filtered out of the costs
NegateDroppingFailed(r) ==
  SelectSeq([i \in 1..Len(r) |-> 0 - r[i]], LAMBDA c : c # Inf)

\* variant of Negate: the fitnesses are handed back as they are
NotNegated(r) == r

\* line 232: [-x for x in res]
Negate(r) == [i \in 1..Len(r) |-> 0 - r[i]]

\* an exception unwinds fmin2: the batch and the strategy's bookkeeping are gone
Unwind ==
  /\ X' = <<>>
  /\ submitted' = 0
  /\ completed' = <<>>
  /\ computed' = <<>>
  /\ res' = <<>>
  /\ costs' = <<>>

\* ------------------------------------------------------------- cma.fmin2, lines 235-242
\* es.stop() by maxfevals
MaxFevalsReached == es.countevals >= MaxFevals

\* while not es.stop(): X = es.ask(); fit = parallel_objective(X)
\* lines 218-219: the strategy dispatches the first genotypes
Ask ==
  /\ pc = "loop"
  /\ ~MaxFevalsReached
  /\ \E batch \in [1..PopSize -> Genotypes] :
       /\ X' = batch
       /\ submitted' = MinOf(InFlightLimit, Len(batch))
  /\ asked' = asked + 1
  /\ pc' = "evaluate"
  /\ UNCHANGED <<exc, cfgVars, run, reshardVars, es, completed, computed, res,
                 costs, xbest, xbest_cost, best_config_yaml, sink_calls, stdout,
                 best_seen, gens_done, best_done, checkpoints, checkpointed,
                 interrupted>>

\* one genotype's merge and evaluation finishes (or fails) on its worker, and
\* the strategy dispatches the next queued genotype to the freed slot
Complete ==
  /\ pc = "evaluate"
  /\ \E i \in InFlight :
       \E fitness \in {Harness(X[i]), WorstFitness} :
         /\ completed' = Append(completed, <<i, fitness>>)
         /\ computed' = [j \in DOMAIN computed \cup {i} |->
                           IF j = i THEN fitness ELSE computed[j]]
  /\ submitted' = MinOf(submitted + 1, Len(X))
  /\ UNCHANGED <<pc, exc, cfgVars, run, reshardVars, es, X, res, costs, xbest,
                 xbest_cost, best_config_yaml, sink_calls, stdout, ghostVars,
                 interrupted>>

\* line 219: evaluate_genotypes returns the reassembled fitnesses
EvaluateReturn ==
  /\ pc = "evaluate"
  /\ AllCompleted
  /\ res' = Reassemble(completed)
  /\ pc' = "pe_log"
  /\ UNCHANGED <<exc, cfgVars, run, reshardVars, es, X, submitted, completed,
                 computed, costs, xbest, xbest_cost, best_config_yaml,
                 sink_calls, stdout, ghostVars, interrupted>>

\* parallel_evaluate returns the costs to fmin; the strategy's bookkeeping of
\* the batch is over
ReturnCosts ==
  /\ costs' = Negate(res)
  /\ submitted' = 0
  /\ completed' = <<>>
  /\ pc' = "tell"
  /\ exc' = exc
  /\ UNCHANGED <<X, computed, res>>

\* lines 221-232: the population statistics are logged when the wandb module
\* is present, and the costs are returned
ParallelEvaluate ==
  /\ pc = "pe_log"
  /\ IF wandb
     THEN IF run # "Run"
          THEN \* run is None: AttributeError
               /\ Raise("AttributeError", 224)
               /\ Unwind
               /\ sink_calls' = sink_calls
          ELSE \/ /\ sink_calls' = sink_calls + 1
                  /\ ReturnCosts
               \/ \* run.log raises
                  /\ Raise("TelemetryError", 224)
                  /\ Unwind
                  /\ sink_calls' = sink_calls + 1
     ELSE /\ ReturnCosts
          /\ sink_calls' = sink_calls
  /\ UNCHANGED <<cfgVars, run, reshardVars, es, xbest, xbest_cost,
                 best_config_yaml, stdout, ghostVars, interrupted>>

\* variant of AfterTell: no callback is registered, fmin loops right away
AfterTellNoCallback == "loop"

\* where fmin goes after es.tell: line 241, its callback
AfterTell == "cb"

\* es.tell(X, fit): counts the evaluations and updates the best-ever solution
\* (BestSolution.update: only a finite cost strictly below the best so far;
\* among equal costs of one batch the sort decides)
Tell ==
  /\ pc = "tell"
  /\ LET minc == Min({costs[i] : i \in 1..Len(costs)}) IN
     \E i \in {j \in 1..Len(costs) : costs[j] = minc} :
       es' = [countevals |-> es.countevals + Len(X),
              countiter |-> es.countiter + 1,
              xbest |-> IF minc < Inf /\ minc < es.fbest THEN X[i] ELSE es.xbest,
              fbest |-> IF minc < Inf /\ minc < es.fbest THEN minc ELSE es.fbest]
  /\ best_seen' = LeastCost(best_seen \cup {<<X[i], costs[i]>> : i \in 1..Len(X)})
  /\ pc' = AfterTell
  \* the batch and its results are locals of fmin, dead from here on
  /\ X' = <<>>
  /\ computed' = <<>>
  /\ res' = <<>>
  /\ costs' = <<>>
  /\ UNCHANGED <<exc, cfgVars, run, reshardVars, submitted, completed, xbest,
                 xbest_cost, best_config_yaml, sink_calls, stdout, asked,
                 gens_done, best_done, checkpoints, checkpointed, interrupted>>

\* ------------------------------------------------------------- progress_callback
\* variant of Improves: the comparison of line 203 is inverted
ImprovesInverted(fbest, cost) == fbest > cost

\* variant of Improves: the callback never takes the branch of line 203
NeverImproves(fbest, cost) == FALSE

\* variant of Improves: line 203 compares with <=
ImprovesOrTies(fbest, cost) == fbest <= cost

\* line 203
Improves(fbest, cost) == fbest < cost

\* progress_callback returns to fmin: the generation is over
EndGeneration ==
  /\ pc' = "loop"
  /\ gens_done' = gens_done + 1
  /\ best_done' = best_seen

\* lines 187-204: the per-generation log, the comparison, xbest = res.xbest
CbBegin ==
  /\ pc = "cb"
  /\ \/ \* run.log raises
        /\ use_wandb
        /\ Raise("TelemetryError", 191)
        /\ sink_calls' = sink_calls + 1
        /\ UNCHANGED <<xbest, gens_done, best_done>>
     \/ /\ sink_calls' = sink_calls + (IF use_wandb THEN 1 ELSE 0)
        /\ exc' = exc
        /\ IF Improves(es.fbest, xbest_cost)
           THEN /\ xbest' = es.xbest
                /\ pc' = "cb_cost"
                /\ UNCHANGED <<gens_done, best_done>>
           ELSE /\ xbest' = xbest
                /\ EndGeneration
  /\ UNCHANGED <<cfgVars, run, reshardVars, es, batchVars, xbest_cost,
                 best_config_yaml, stdout, best_seen, asked, checkpoints,
                 checkpointed, interrupted>>

\* line 205: xbest_cost = res.fbest
CbSetCost ==
  /\ pc = "cb_cost"
  /\ xbest_cost' = es.fbest
  /\ pc' = "cb_open"
  /\ UNCHANGED <<exc, cfgVars, run, reshardVars, es, batchVars, xbest,
                 best_config_yaml, sink_calls, stdout, ghostVars, interrupted>>

\* lines 206-208: open(best_config.yaml, "w") truncates the file
CbOpen ==
  /\ pc = "cb_open"
  /\ best_config_yaml' = <<"">>
  /\ pc' = "cb_write"
  /\ UNCHANGED <<exc, cfgVars, run, reshardVars, es, batchVars, xbest,
                 xbest_cost, sink_calls, stdout, ghostVars, interrupted>>

\* line 209: f.write(best_yaml), and the file is closed
CbWrite ==
  /\ pc = "cb_write"
  /\ best_config_yaml' = to_yaml(genotype_merge_config(xbest))
  /\ checkpoints' = checkpoints + 1
  /\ checkpointed' = <<xbest, xbest_cost>>
  /\ pc' = "cb_artifact"
  /\ UNCHANGED <<exc, cfgVars, run, reshardVars, es, batchVars, xbest,
                 xbest_cost, sink_calls, stdout, best_seen, asked, gens_done,
                 best_done, interrupted>>

\* lines 210-215: the artifact upload when the wandb module is present
CbArtifact ==
  /\ pc = "cb_artifact"
  /\ IF wandb
     THEN IF run # "Run"
          THEN \* run is None: AttributeError
               /\ Raise("AttributeError", 215)
               /\ UNCHANGED <<sink_calls, gens_done, best_done>>
          ELSE \/ /\ sink_calls' = sink_calls + 1
                  /\ EndGeneration
                  /\ exc' = exc
               \/ \* run.log_artifact raises
                  /\ Raise("TelemetryError", 215)
                  /\ sink_calls' = sink_calls + 1
                  /\ UNCHANGED <<gens_done, best_done>>
     ELSE /\ EndGeneration
          /\ UNCHANGED <<exc, sink_calls>>
  /\ UNCHANGED <<cfgVars, run, reshardVars, es, batchVars, xbest, xbest_cost,
                 best_config_yaml, stdout, best_seen, asked, checkpoints,
                 checkpointed, interrupted>>

\* ------------------------------------------------------------- main, lines 234-253
\* the positions of main inside the try block
InTry == {"loop", "evaluate", "pe_log", "tell", "cb", "cb_cost", "cb_open",
          "cb_write", "cb_artifact"}

\* lines 235 and 243: fmin2 returns (es.result.xbest, es) once es.stop() holds:
\* maxfevals is reached or, after an iteration, another termination criterion
FminReturn ==
  /\ pc = "loop"
  /\ MaxFevalsReached \/ es.countiter >= 1
  /\ xbest' = es.xbest
  /\ xbest_cost' = es.fbest
  /\ pc' = "report"
  /\ UNCHANGED <<exc, cfgVars, run, reshardVars, es, batchVars,
                 best_config_yaml, sink_calls, stdout, ghostVars, interrupted>>

\* lines 244-245: KeyboardInterrupt is delivered inside the try block
Interrupt ==
  /\ pc \in InTry
  /\ interrupted' = pc
  /\ pc' = "report"
  /\ Unwind
  /\ UNCHANGED <<exc, cfgVars, run, reshardVars, es, xbest, xbest_cost,
                 best_config_yaml, sink_calls, stdout, ghostVars>>

\* lines 247-253: the final report; decoding rejects a missing genotype
Report ==
  /\ pc = "report"
  /\ IF xbest = NoGenotype
     THEN /\ Raise("DecodeError", 251)
          /\ stdout' = [cost |-> xbest_cost, config |-> <<>>, printed |-> 1]
     ELSE /\ stdout' = [cost |-> xbest_cost,
                        config |-> to_yaml(genotype_merge_config(xbest)),
                        printed |-> 2]
          /\ pc' = "done"
          /\ exc' = exc
  /\ UNCHANGED <<cfgVars, run, reshardVars, loopVars, interrupted>>

Next ==
  \/ Validate
  \/ WandbInit
  \/ ReshardModels
  \/ ReshardBase
  \/ Construct
  \/ Ask
  \/ Complete
  \/ EvaluateReturn
  \/ ParallelEvaluate
  \/ Tell
  \/ CbBegin
  \/ CbSetCost
  \/ CbOpen
  \/ CbWrite
  \/ CbArtifact
  \/ FminReturn
  \/ Interrupt
  \/ Report

Spec == Init /\ [][Next]_vars

\* main up to the start of the search
NextReshard ==
  \/ Validate
  \/ WandbInit
  \/ ReshardModels
  \/ ReshardBase
  \/ Construct

ReshardSpec == InitReshard /\ [][NextReshard]_vars

\* ------------------------------------------------------------- properties
Yaml(g) == to_yaml(genotype_merge_config(g))

CallbackPcs == {"cb", "cb_cost", "cb_open", "cb_write", "cb_artifact"}

\* the final report shows the genotype and the cost of the pair p
Reports(p) == stdout.config = Yaml(p[1]) /\ stdout.cost = p[2]

\* C1 (as claimed): after a KeyboardInterrupt that follows a completed
\* generation, main does not raise and the final report shows the genotype and
\* the cost of the best candidate seen before the interrupt.  Read in the
\* claim's favour: some finite cost was seen, and "the best seen" may be the
\* best of the completed generations or the best handed to es.tell.
C1_InterruptReportsBestSeen ==
  (interrupted # "" /\ gens_done >= 1 /\ \E p \in best_done : p[2] < Inf) =>
    /\ pc # "aborted"
    /\ pc = "done" => \E p \in best_done \cup best_seen : Reports(p)

\* C2 (as claimed): after the checkpoint step of every generation, once a
\* candidate has been evaluated, best_config.yaml holds the serialized decode
\* of a genotype of least cost among all evaluated so far.
C2_BestConfigAfterAnyEvaluation ==
  (pc = "loop" /\ gens_done >= 1) =>
    \E p \in best_seen : best_config_yaml = Yaml(p[1])

\* C2 (amended): after the checkpoint step of every generation, once a
\* candidate with a finite cost has been evaluated, best_config.yaml holds
\* the serialized decode of a genotype of least cost among all evaluated so
\* far.
C2_BestConfigAfterFiniteCost ==
  (pc = "loop" /\ gens_done >= 1 /\ \E p \in best_seen : p[2] < Inf) =>
    \E p \in best_seen : best_config_yaml = Yaml(p[1])

\* the artifact was overwritten by the improvement of a second generation
C2_Witness ==
  /\ pc = "loop"
  /\ gens_done = 2
  /\ checkpoints = 2
  /\ best_config_yaml = Yaml(1)
  /\ best_seen = {<<1, 0 - Harness(1)>>}

\* C3 (as claimed): when main exits after at least one checkpoint, normally
\* or after an interruption, the printed configuration equals the content of
\* best_config.yaml and the printed cost is the cost of that checkpoint.
C3_ReportMatchesCheckpoint ==
  (pc = "done" /\ checkpoints >= 1) =>
    /\ stdout.config = best_config_yaml
    /\ stdout.cost = checkpointed[2]

\* C4: the generations are strictly sequential.  While generation k is being
\* evaluated, k-1 generations have been told and checkpointed; es.tell runs
\* with a cost for every genotype of the batch; the callback of generation k
\* runs after its tell; nothing is in flight outside the evaluation.
C4_GenerationsSequential ==
  /\ pc \in {"evaluate", "pe_log", "tell"} =>
       es.countiter = asked - 1 /\ gens_done = asked - 1
  /\ pc = "tell" =>
       /\ Len(X) = PopSize
       /\ Len(costs) = Len(X)
       /\ DOMAIN computed = 1..Len(X)
  /\ pc \in CallbackPcs => es.countiter = asked /\ gens_done = asked - 1
  /\ pc = "loop" => es.countiter = asked /\ gens_done = asked
  /\ (submitted > 0 \/ completed # <<>>) => pc \in {"evaluate", "pe_log"}

\* the second generation is half evaluated
C4_Witness ==
  /\ pc = "evaluate"
  /\ asked = 2
  /\ Len(completed) = 1
  /\ gens_done = 1

\* C5: for every strategy, evaluate_genotypes returns one fitness per genotype
\* of the batch, and the i-th is the one produced for the i-th genotype,
\* whatever the order of completion.
C5_ResultsAlignedWithBatch ==
  pc \in {"pe_log", "tell"} =>
    /\ Len(res) = Len(X)
    /\ \A i \in 1..Len(X) :
         /\ res[i] = computed[i]
         /\ res[i] \in {Harness(X[i]), WorstFitness}

\* the pool returned a batch whose second genotype finished first, with a
\* different fitness
C5_Witness ==
  /\ pc = "pe_log"
  /\ strategy = "pool"
  /\ completed[1][1] = 2
  /\ completed[1][2] # completed[2][2]

\* C6: under the pool and buffered strategies a failed genotype leaves the
\* batch whole: no exception, one entry per genotype, and the entries of the
\* genotypes that did not fail are their own fitnesses (costs).
C6_FailureIsolated ==
  (/\ strategy \in {"pool", "buffered"}
   /\ pc \in {"pe_log", "tell"}
   /\ \E i \in DOMAIN computed : computed[i] = WorstFitness) =>
    /\ exc = NoExc
    /\ Len(res) = Len(X)
    /\ \A i \in 1..Len(X) :
         computed[i] # WorstFitness => res[i] = Harness(X[i])
    /\ pc = "tell" =>
         /\ Len(costs) = Len(X)
         /\ \A i \in 1..Len(X) :
              computed[i] # WorstFitness => costs[i] = 0 - Harness(X[i])

\* the optimizer is about to be told a batch of which one genotype failed
C6_Witness ==
  /\ pc = "tell"
  /\ strategy = "buffered"
  /\ \E i, j \in DOMAIN computed :
       computed[i] = WorstFitness /\ computed[j] # WorstFitness

\* C7: resharding is idempotent.  Of two calls of _reshard_model on the same
\* model, the later returns the same path and does no conversion work.
C7_ReshardIdempotent ==
  \A i, j \in DOMAIN reshard_log :
    (i < j /\ reshard_log[i].model = reshard_log[j].model) =>
      /\ reshard_log[j].ret = reshard_log[i].ret
      /\ reshard_log[j].work = {}

\* the base model is also an input model, and its first call converted it
C7_Witness ==
  \E i, j \in DOMAIN reshard_log :
    /\ i < j
    /\ reshard_log[i].model = reshard_log[j].model
    /\ reshard_log[i].work = {"load", "save", "tokenizer"}

\* every configured model and the base model have been resharded
AllResharded ==
  /\ Len(resharded_models) = NumModels
  /\ \A i \in 1..NumModels :
       /\ resharded_models[i] = out_path(models[i])
       /\ fs[out_path(models[i])] # "absent"
  /\ base_model # NoModel =>
       /\ resharded_base = out_path(base_model)
       /\ fs[out_path(base_model)] # "absent"
  /\ Len(reshard_log) = NumModels + (IF base_model = NoModel THEN 0 ELSE 1)

\* C8: every input model and the base model are resharded before the first
\* genotype is evaluated, a model is converted at most once, and no reshard
\* step runs once the evaluation loop has started.
C8_ReshardBeforeSearch ==
  /\ []((pc \in InTry \/ asked >= 1) => AllResharded)
  /\ [](\A m \in ModelIds : conversions[m] <= 1)
  /\ [][(pc \in InTry) => (reshardVars' = reshardVars)]_vars

\* a genotype is being evaluated, the base model was resharded from the cache
C8_Witness ==
  /\ pc = "evaluate"
  /\ base_model = 1
  /\ conversions[1] = 1
  /\ Len(reshard_log) = NumModels + 1

\* C9 (as claimed): a failure of the telemetry sink never aborts the search.
C9_SinkFailureNeverAborts == exc.type # "TelemetryError"

\* the lines that raise before the search starts, and the line of
\* parallel_evaluate that raises (a batch evaluation that does not return)
RaisesOutsideSearch == {97, 103, 132, 137, 224}

\* C10 (as claimed): no batch is asked for once max_fevals evaluations were
\* made, and, every batch evaluation returning, the run ends in the final
\* report, never in an exception.
C10_SearchEndsInFinalReport ==
  /\ pc \in {"evaluate", "pe_log", "tell"} => es.countevals < MaxFevals
  /\ pc = "aborted" => exc.line \in RaisesOutsideSearch

\* C11: in _reshard_model a failure of the conversion itself (the load or the
\* save of the weights) leaves main as an exception at the reshard step, before
\* the search is constructed; a failure of the tokenizer copy alone is logged
\* as a warning and the call returns the reference to the path it has written.
C11_ConversionFatalTokenizerTolerated ==
  /\ \A m \in ModelIds :
       (conversions[m] >= 1 /\ source[m] \in {"load_fails", "save_fails"}) =>
         /\ pc = "aborted"
         /\ exc.type = (IF source[m] = "load_fails" THEN "LoadError" ELSE "SaveError")
         /\ exc.line \in {132, 137}
         /\ asked = 0
         /\ \A i \in DOMAIN reshard_log : reshard_log[i].model # m
  /\ \A i \in DOMAIN reshard_log :
       LET r == reshard_log[i] IN
       (r.work # {} /\ source[r.model] = "no_tokenizer") =>
         /\ r.warned
         /\ r.ret = out_path(r.model)
         /\ fs[r.ret] = "model"
  /\ exc.type \notin {"TokenizerError"}

\* the first model was resharded without its tokenizer, with a warning, and
\* the save of the second model's weights then ended the run
C11_Witness ==
  /\ pc = "aborted"
  /\ exc = [type |-> "SaveError", line |-> 132]
  /\ Len(reshard_log) = 1
  /\ reshard_log[1].warned
  /\ reshard_log[1].ret = out_path(1)

\* C12: the cost list handed back to the optimizer has the length of the
\* batch, its i-th element is the negation of the fitness the strategy
\* returned at position i, and a lower cost is a higher fitness.
C12_CostsAreNegatedFitness ==
  pc = "tell" =>
    /\ Len(costs) = Len(X)
    /\ Len(res) = Len(X)
    /\ \A i \in 1..Len(X) : costs[i] = 0 - res[i]
    /\ \A i, j \in 1..Len(X) : (costs[i] < costs[j]) <=> (res[i] > res[j])

\* a batch of the second generation whose fitnesses differ was handed back
C12_Witness ==
  /\ pc = "tell"
  /\ asked = 2
  /\ res[1] > res[2]
  /\ costs[1] < costs[2]
  /\ costs[2] < Inf

\* C13: a run configuration that fails validation aborts the run before any
\* resharding, strategy construction or genotype evaluation: main raises at
\* line 97 with no telemetry run, no reshard call, nothing on storage, nothing
\* asked and nothing printed.
C13_ConfigErrorAbortsFirst ==
  ~config_valid =>
    /\ pc \in {"validate", "aborted"}
    /\ pc = "aborted" => exc = [type |-> "ValidationError", line |-> 97]
    /\ run = "unbound"
    /\ reshard_log = <<>> /\ resharded_models = <<>>
    /\ \A m \in ModelIds : conversions[m] = 0 /\ fs[out_path(m)] = "absent"
    /\ asked = 0 /\ es.countevals = 0
    /\ sink_calls = 0
    /\ best_config_yaml = <<>>
    /\ stdout = NoReport

\* an invalid configuration with telemetry requested has ended the run
C13_Witness ==
  /\ ~config_valid
  /\ use_wandb /\ wandb
  /\ pc = "aborted"
  /\ exc.type = "ValidationError"

\* C14 (as claimed): when no run object was created, neither parallel_evaluate
\* nor progress_callback invokes an operation on the sink, and the search is
\* not ended by an attempt to use it.
C14_NoSinkUseWithoutRun ==
  run = "None" =>
    /\ sink_calls = 0
    /\ exc.type # "AttributeError"

\* C15: the callback of a generation whose best-ever cost is not strictly
\* lower than the stored best cost (a tie included) does not enter the
\* checkpoint branch: the stored genotype, the stored cost and best_config.yaml
\* stay as they are and the file is not rewritten.
C15_NoImprovementNoChange ==
  [][(pc = "cb" /\ es.fbest >= xbest_cost) =>
       /\ xbest' = xbest
       /\ xbest_cost' = xbest_cost
       /\ best_config_yaml' = best_config_yaml
       /\ checkpoints' = checkpoints
       /\ pc' \notin {"cb_cost", "cb_open", "cb_write", "cb_artifact"}]_vars

\* the second generation tied with the checkpoint of the first and its
\* callback has returned
C15_Witness ==
  /\ pc = "loop"
  /\ gens_done = 2
  /\ checkpoints = 1
  /\ xbest_cost < Inf
  /\ es.fbest = xbest_cost
  /\ best_config_yaml = Yaml(xbest)

\* C16 (as claimed): once a checkpoint has been written, an interruption that
\* arrives while a later checkpoint is being written never leaves
\* best_config.yaml empty, truncated or missing: when main has ended, the file
\* is the complete configuration of some genotype.
C16_ArtifactNeverTruncated ==
  (checkpoints >= 1 /\ pc = "done") =>
    \E g \in Genotypes : best_config_yaml = Yaml(g)

\* C17 (as claimed): at the start of every generation and whenever the final
\* report runs, after an interruption inside the checkpoint step too, the
\* stored best cost is +infinity with the stored genotype x0, or it is the
\* cost that was measured for the stored genotype.
C17_StoredPairConsistent ==
  (pc \in {"loop", "report", "done"} /\ interrupted # "") =>
    \/ xbest = x0 /\ xbest_cost = Inf
    \/ xbest \in Genotypes /\ xbest_cost = 0 - Harness(xbest)

\* C18: the stored best cost is +infinity when the search starts and never
\* increases; when the callback of a generation has returned it is the least
\* cost of all genotypes evaluated so far, and if that cost is finite
\* best_config.yaml has been written.
C18_BestCostMonotoneMinimum ==
  /\ []((pc = "loop" /\ asked = 0) => xbest_cost = Inf)
  /\ [][xbest_cost' <= xbest_cost]_vars
  /\ []((pc = "loop" /\ gens_done >= 1) =>
         /\ \A p \in best_seen : xbest_cost = p[2]
         /\ best_seen # {}
         /\ xbest_cost < Inf =>
              /\ checkpoints >= 1
              /\ \E g \in Genotypes : best_config_yaml = Yaml(g))

\* the stored cost went from +infinity to the cost of genotype 2 and then to
\* the cost of genotype 1, the least there is
C18_Witness ==
  /\ pc = "loop"
  /\ gens_done = 2
  /\ checkpointed = <<1, 0 - Harness(1)>>
  /\ checkpoints = 2
  /\ xbest_cost = 0 - Harness(1)
  /\ xbest_cost < 0 - Harness(2)

\* C19 (as claimed): a path under input_models that a failed or interrupted
\* conversion left incomplete is never returned by _reshard_model as an
\* existing resharded model.
C19_PartialCacheNotAccepted ==
  \A i \in DOMAIN reshard_log : fs[reshard_log[i].ret] # "partial"
====
